---- MODULE Spec2Model ----
(***************************************************************************)
(* Model of the extraction engine of app.py: split_pdf_bytes (chunk        *)
(* planning), parse_amount / float (numeric conversion), parse_pages (the  *)
(* record assembler), process_one_file (chunk loop with page offset) and   *)
(* the per-file loop of main.                                              *)
(*                                                                         *)
(* Text is modelled as sequences of one-character strings wherever the     *)
(* code converts it (amounts, percents); the groups that the code copies   *)
(* verbatim are strings.  Floats are integers in hundredths.               *)
(***************************************************************************)
EXTENDS Integers, Sequences, FiniteSets, TLC

(***************************************************************************)
(* Bounds                                                                  *)
(***************************************************************************)
MaxPages == 3
MaxChunk == 3
MaxLines == 4
MaxSplitPages == 10
MaxSplitChunk == 6
NumFiles == 2
MaxMainChunk == 2

(***************************************************************************)
(* Python values: None, numbers and strings share one field of a record    *)
(***************************************************************************)
None == [t |-> "None"]
Num(v) == [t |-> "float", v |-> v]
Str(s) == [t |-> "str", s |-> s]
TRUNCATED == Str("N/A (PDF truncated)")

Min(a, b) == IF a <= b THEN a ELSE b

\* math.ceil(a / b) for positive b
Ceil(a, b) == (a + b - 1) \div b

(***************************************************************************)
(* split_pdf_bytes: the page windows; a part is (label, bytes, page_count) *)
(* and the bytes are the pages start+1 .. end of the original document     *)
(***************************************************************************)
SplitPartOffByOne(part_idx, num_pages, chunk_size) ==
    LET start == part_idx * chunk_size
        end == Min(start + chunk_size, num_pages)
    IN  [part |-> part_idx + 1, start |-> start, end |-> end,
         page_count |-> end - start + 1]

SplitPart(part_idx, num_pages, chunk_size) ==
    LET start == part_idx * chunk_size
        end == Min(start + chunk_size, num_pages)
    IN  [part |-> part_idx + 1, start |-> start, end |-> end,
         page_count |-> end - start]

split_pdf_bytes(num_pages, chunk_size) ==
    IF num_pages <= chunk_size
    THEN << [part |-> 0, start |-> 0, end |-> num_pages,
             page_count |-> num_pages] >>
    ELSE LET part_count == Ceil(num_pages, chunk_size)
         IN  [i \in 1..part_count |-> SplitPart(i - 1, num_pages, chunk_size)]

(***************************************************************************)
(* float() and parse_amount                                                *)
(***************************************************************************)
Digits == {"0", "1", "2", "3", "4", "5", "6", "7", "8", "9"}

DigitVal(c) ==
    CASE c = "0" -> 0 [] c = "1" -> 1 [] c = "2" -> 2 [] c = "3" -> 3
      [] c = "4" -> 4 [] c = "5" -> 5 [] c = "6" -> 6 [] c = "7" -> 7
      [] c = "8" -> 8 [] c = "9" -> 9

RECURSIVE IntOf(_)
IntOf(s) ==
    IF s = << >> THEN 0
    ELSE 10 * IntOf(SubSeq(s, 1, Len(s) - 1)) + DigitVal(s[Len(s)])

\* text.replace(",", "")
RECURSIVE RemoveCommas(_)
RemoveCommas(s) ==
    IF s = << >> THEN << >>
    ELSE IF Head(s) = "," THEN RemoveCommas(Tail(s))
         ELSE << Head(s) >> \o RemoveCommas(Tail(s))

\* float(s) for the texts the grammars can hand over (digits and dots):
\* a ValueError unless there is at least one digit and at most one dot.
\* The value is kept in hundredths (the texts have at most two decimals).
Float(s) ==
    LET dots == {i \in 1..Len(s) : s[i] = "."}
        digs == {i \in 1..Len(s) : s[i] \in Digits}
    IN  IF \/ digs = {}
           \/ Cardinality(dots) > 1
           \/ Cardinality(dots) + Cardinality(digs) # Len(s)
        THEN [ok |-> FALSE, v |-> 0]
        ELSE LET d == IF dots = {} THEN Len(s) + 1 ELSE CHOOSE i \in dots : TRUE
                 ip == SubSeq(s, 1, d - 1)
                 fp == IF dots = {} THEN << >>
                       ELSE SubSeq(s \o <<"0", "0">>, d + 1, d + 2)
             IN  [ok |-> TRUE, v |-> 100 * IntOf(ip) + IntOf(fp)]

parse_amount(text) == Float(RemoveCommas(text))

(***************************************************************************)
(* OCR lines.  A line is given by the grammar it matches and the groups of *)
(* the match; INVOICED_ZERO matches a subset of what INVOICED matches.     *)
(***************************************************************************)
H1 == [kind |-> "Header", g1 |-> "4500000001", g2 |-> "FO", g3 |-> "001234",
       g4 |-> "ACME CORP", g5 |-> "BC1", g6 |-> "01/15/2024"]
H2 == [kind |-> "Header", g1 |-> "4500000002", g2 |-> "NB", g3 |-> "005678",
       g4 |-> "GLOBEX", g5 |-> "BC2", g6 |-> "02/20/2024"]
L1 == [kind |-> "LineItem", g1 |-> "00010", g2 |-> "Widget assembly"]
L2 == [kind |-> "LineItem", g1 |-> "00020", g2 |-> "Gasket"]
\* "1 MAT 1000 5 EA 1,250.00 USD"
A1 == [kind |-> "AccountLine", g2 |-> "MAT", g3 |-> "1000",
       g4 |-> <<"1", ",", "2", "5", "0", ".", "0", "0">>]
\* "2 SVC 1 PU 80.50 USD": the optional sub-code is absent
A2 == [kind |-> "AccountLine", g2 |-> "SVC", g3 |-> "",
       g4 |-> <<"8", "0", ".", "5", "0">>]
\* "Still to be invoiced 3 EA 375.00 USD 30.00%"
INV == [kind |-> "Invoiced", g2 |-> <<"3", "7", "5", ".", "0", "0">>,
        g3 |-> <<"3", "0", ".", "0", "0">>]
\* "Still to be invoiced OO EA 0.00 USD 0.00%"
INVZ == [kind |-> "InvoicedZero", g2 |-> <<"0", ".", "0", "0">>,
         g3 |-> <<"0", ".", "0", "0">>]
\* "Still to be invoiced 3 EA 375.00 USD 1.2.3%": group 3 is [\d.]+
INVBAD == [kind |-> "Invoiced", g2 |-> <<"3", "7", "5", ".", "0", "0">>,
           g3 |-> <<"1", ".", "2", ".", "3">>]
UNREC == [kind |-> "Unrecognized"]
BLANK == [kind |-> "Blank"]

Lines == {H1, H2, L1, L2, A1, A2, INV, INVZ, INVBAD, UNREC, BLANK}

PO_HEADER(line) == line.kind = "Header"
LINE_ITEM(line) == line.kind = "LineItem"
ACCOUNT_LINE(line) == line.kind = "AccountLine"
INVOICED(line) == line.kind \in {"Invoiced", "InvoicedZero"}
INVOICED_ZERO(line) == line.kind = "InvoicedZero"

(***************************************************************************)
(* The dict `current`: a function on the keys that are set                 *)
(***************************************************************************)
EmptyDict == << >>
TruthyAlways(d) == TRUE

Truthy(d) == DOMAIN d # {}
Get(d, k, default) == IF k \in DOMAIN d THEN d[k] ELSE default
Put(d, k, v) == [x \in (DOMAIN d) \cup {k} |-> IF x = k THEN v ELSE d[x]]

HeaderDict(line) ==
    [po |-> line.g1, type |-> line.g2, vid |-> line.g3, vname |-> line.g4,
     bc |-> line.g5, date |-> line.g6]

\* f"{m.group(2)} {m.group(3) or ''}".strip()
AcctCode(line) == IF line.g3 = "" THEN line.g2 ELSE line.g2 \o " " \o line.g3

NewPending(current, line, amount, source_filename, actual_page) ==
    [SourceFile |-> source_filename,
     Page |-> actual_page,
     PONumber |-> Get(current, "po", ""),
     POType |-> Get(current, "type", ""),
     VendorID |-> Get(current, "vid", ""),
     VendorName |-> Get(current, "vname", ""),
     BuyerCode |-> Get(current, "bc", ""),
     PODate |-> Get(current, "date", ""),
     LineItem |-> Get(current, "line_num", ""),
     Description |-> Get(current, "desc", ""),
     AccountCode |-> AcctCode(line),
     POLineAmount |-> Num(amount),
     StillToBeInvoiced |-> None,
     InvoicedPct |-> None]

(***************************************************************************)
(* parse_pages.  Its locals are st = [records, current, pending, raised];  *)
(* pending is << >> for None and << p >> for an open pending record.       *)
(***************************************************************************)
ParseStartStale ==
    [records |-> << >>, current |-> EmptyDict,
     pending |-> << NewPending(HeaderDict(H1), A1, 125000, "stale.pdf", 1) >>,
     raised |-> FALSE]

ParseStart == [records |-> << >>, current |-> EmptyDict, pending |-> << >>,
               raised |-> FALSE]

Raise(st) == [st EXCEPT !.raised = TRUE]

\* actual_page = page_num + page_offset
ActualPageLocal(page_num, page_offset) == page_num

ActualPage(page_num, page_offset) == page_num + page_offset

\* a Header line: current is assigned a new dict of the six PO fields
OnHeaderMerge(current, line) ==
    [k \in (DOMAIN current) \cup (DOMAIN HeaderDict(line)) |->
        IF k \in DOMAIN HeaderDict(line) THEN HeaderDict(line)[k]
        ELSE current[k]]

OnHeader(current, line) == HeaderDict(line)

\* one iteration of the loop over the lines of a page
LineStep(st, line, source_filename, actual_page) ==
    IF line.kind = "Blank" THEN st
    ELSE IF PO_HEADER(line)
    THEN [st EXCEPT !.current = OnHeader(st.current, line)]
    ELSE IF LINE_ITEM(line) /\ Truthy(st.current)
    THEN [st EXCEPT !.current =
              Put(Put(st.current, "line_num", line.g1), "desc", line.g2)]
    ELSE IF ACCOUNT_LINE(line) /\ Truthy(st.current)
    THEN LET amt == parse_amount(line.g4)
         IN  IF ~amt.ok THEN Raise(st)
             ELSE [st EXCEPT !.pending =
                      << NewPending(st.current, line, amt.v,
                                    source_filename, actual_page) >>]
    ELSE IF INVOICED(line) /\ st.pending # << >>
    THEN LET amt == parse_amount(line.g2)
             pct == Float(line.g3)
         IN  IF ~amt.ok \/ ~pct.ok THEN Raise(st)
             ELSE [st EXCEPT
                      !.records = Append(st.records,
                          [st.pending[1] EXCEPT
                              !.StillToBeInvoiced = Num(amt.v),
                              !.InvoicedPct = Num(pct.v)]),
                      !.pending = << >>]
    ELSE IF INVOICED_ZERO(line) /\ st.pending # << >>
    THEN [st EXCEPT
             !.records = Append(st.records,
                 [st.pending[1] EXCEPT !.StillToBeInvoiced = Num(0),
                                       !.InvoicedPct = Num(0)]),
             !.pending = << >>]
    ELSE st

ParseEndFromCurrent(st) ==
    IF st.pending # << >>
    THEN [st EXCEPT
             !.records = Append(st.records,
                 [st.pending[1] EXCEPT !.PONumber = Get(st.current, "po", ""),
                                       !.StillToBeInvoiced = TRUNCATED,
                                       !.InvoicedPct = TRUNCATED]),
             !.pending = << >>]
    ELSE st

ParseEndReplaces(st) ==
    IF st.pending # << >>
    THEN [st EXCEPT
             !.records = << [st.pending[1] EXCEPT
                                !.StillToBeInvoiced = TRUNCATED,
                                !.InvoicedPct = TRUNCATED] >>,
             !.pending = << >>]
    ELSE st

\* after the loop over the pages: an open pending is closed as truncated
ParseEnd(st) ==
    IF st.pending # << >>
    THEN [st EXCEPT
             !.records = Append(st.records,
                 [st.pending[1] EXCEPT !.StillToBeInvoiced = TRUNCATED,
                                       !.InvoicedPct = TRUNCATED]),
             !.pending = << >>]
    ELSE st

\* the loop over the lines of one page; a raise ends it
RECURSIVE ParseLines(_, _, _, _)
ParseLines(st, text, source_filename, actual_page) ==
    IF text = << >> \/ st.raised THEN st
    ELSE ParseLines(LineStep(st, Head(text), source_filename, actual_page),
                    Tail(text), source_filename, actual_page)

\* the loop over page_texts from page page_num (1-based) on
RECURSIVE ParseFrom(_, _, _, _, _)
ParseFrom(st, page_texts, page_num, source_filename, page_offset) ==
    IF page_num > Len(page_texts) \/ st.raised THEN st
    ELSE ParseFrom(ParseLines(st, page_texts[page_num], source_filename,
                              ActualPage(page_num, page_offset)),
                   page_texts, page_num + 1, source_filename, page_offset)

\* parse_pages(page_texts, source_filename, page_offset) as a whole
parse_pages(page_texts, source_filename, page_offset) ==
    LET st == ParseFrom(ParseStart, page_texts, 1, source_filename, page_offset)
    IN  IF st.raised THEN st ELSE ParseEnd(st)

(***************************************************************************)
(* The per-file summary of main                                            *)
(***************************************************************************)
IsNumber(x) == x.t = "float"

RECURSIVE SumNumeric(_, _)
SumNumeric(records, field) ==
    IF records = << >> THEN 0
    ELSE (IF IsNumber(Head(records)[field]) THEN Head(records)[field].v ELSE 0)
         + SumNumeric(Tail(records), field)

UniquePOs(records) == Cardinality({records[i].PONumber : i \in 1..Len(records)})

RECURSIVE TruncatedOf(_)
TruncatedOf(records) ==
    IF records = << >> THEN << >>
    ELSE (IF Head(records).InvoicedPct = TRUNCATED
          THEN << << Head(records).PONumber, Head(records).LineItem >> >>
          ELSE << >>) \o TruncatedOf(Tail(records))

\* split_info of process_one_file: set when the file was split
SplitInfo(ps, pages) ==
    IF Len(ps) > 1 THEN << [chunks |-> Len(ps), pages |-> pages] >> ELSE << >>

EmptySummary(filename, pages) ==
    [filename |-> filename, pages |-> pages, unique_pos |-> 0,
     line_items |-> 0, total_amount |-> 0, total_invoiced |-> 0,
     anomalies |-> [t |-> "No parseable records found"]]

FailedSummary(filename, e) ==
    [filename |-> filename, pages |-> 0, unique_pos |-> 0,
     line_items |-> 0, total_amount |-> 0, total_invoiced |-> 0,
     anomalies |-> [t |-> "FAILED", e |-> e]]

SummaryWrongField(filename, pages, records, split_info) ==
    [filename |-> filename, pages |-> pages,
     unique_pos |-> UniquePOs(records),
     line_items |-> Len(records),
     total_amount |-> SumNumeric(records, "POLineAmount"),
     total_invoiced |-> SumNumeric(records, "POLineAmount"),
     anomalies |-> [t |-> "text", truncated |-> TruncatedOf(records),
                    split_info |-> split_info]]

Summary(filename, pages, records, split_info) ==
    [filename |-> filename, pages |-> pages,
     unique_pos |-> UniquePOs(records),
     line_items |-> Len(records),
     total_amount |-> SumNumeric(records, "POLineAmount"),
     total_invoiced |-> SumNumeric(records, "StillToBeInvoiced"),
     anomalies |-> [t |-> "text", truncated |-> TruncatedOf(records),
                    split_info |-> split_info]]

(***************************************************************************)
(* State                                                                   *)
(*   process_one_file: num_pages, chunk_size, parts, part_i (position of   *)
(*     the loop over parts), all_records, total_pages, page_offset         *)
(*   pdf_bytes_to_text: chunk_pages = len(page_texts) of the current part  *)
(*   parse_pages: st (records, current, pending), page_num, n_lines (the   *)
(*     number of lines of the document read so far)                        *)
(*   pc: "split", "ocr", "parse", "done", "raised"                         *)
(* History of the document as a whole, kept next to the program state:     *)
(*   abs_page: the 1-based number, in the unsplit document, of the page    *)
(*     being read                                                          *)
(*   ref: the locals of one parse_pages run over all pages of the document *)
(*     as a single stream (page_offset = 0)                                *)
(*   origin: abs_page of the AccountLine behind the open pending (pend)    *)
(*     and behind each emitted record (recs)                               *)
(*   run: len = PendingRecord-opening AccountLines read since the last     *)
(*     invoiced line (capped at 2), emitted = records emitted since then   *)
(*   main: uploaded_files (name and page texts of each file), file_idx,    *)
(*     main_all_records, file_summaries, main_total_pages (all_records and *)
(*     total_pages of main), exc (the exception on its way to the handler) *)
(*     grand_totals (<< >> until main computes it)                         *)
(*   chunk_log: per file, the outcome of each processed part               *)
(*   seen: ctx = a Header, LineItem or AccountLine was read in the         *)
(*     document, inv = an invoiced line was read in the document, li = 1   *)
(*     once a LineItem was recorded in current, 2 once a Header was read   *)
(*     after it, 3 once an AccountLine opened a pending after that Header  *)
(***************************************************************************)
VARIABLES pc, num_pages, chunk_size, parts, part_i, all_records, total_pages,
          page_offset, chunk_pages, st, page_num, n_lines,
          abs_page, ref, origin, run, seen,
          uploaded_files, file_idx, main_all_records, file_summaries,
          main_total_pages, exc, chunk_log, grand_totals

\* parse_pages read line by line, and the history kept with it
linevars == << chunk_pages, st, page_num, n_lines, abs_page, ref, origin, run,
               seen >>

\* the per-file loop of main
mainvars == << uploaded_files, file_idx, main_all_records, file_summaries,
               main_total_pages, exc, chunk_log, grand_totals >>

vars == << pc, num_pages, chunk_size, parts, part_i, all_records, total_pages,
           page_offset, linevars, mainvars >>

FileName == "doc.pdf"

InitFile ==
    /\ parts = << >>
    /\ part_i = 1
    /\ all_records = << >>
    /\ total_pages = 0
    /\ page_offset = 0
    /\ chunk_pages = 0
    /\ st = ParseStart
    /\ page_num = 0
    /\ n_lines = 0
    /\ abs_page = 0
    /\ ref = ParseStart
    /\ origin = [pend |-> 0, recs |-> << >>]
    /\ run = [len |-> 0, emitted |-> 0]
    /\ seen = [ctx |-> FALSE, inv |-> FALSE, li |-> 0]

NoFiles ==
    /\ uploaded_files = << >>
    /\ file_idx = 1
    /\ main_all_records = << >>
    /\ file_summaries = << >>
    /\ main_total_pages = 0
    /\ exc = ""
    /\ chunk_log = << >>
    /\ grand_totals = << >>

Init ==
    /\ num_pages \in 1..MaxPages
    /\ chunk_size \in 1..MaxChunk
    /\ pc = "split"
    /\ InitFile
    /\ NoFiles

\* process_one_file up to the loop over the parts
Split ==
    /\ pc = "split"
    /\ parts' = split_pdf_bytes(num_pages, chunk_size)
    /\ pc' = "ocr"
    /\ UNCHANGED << num_pages, chunk_size, part_i, all_records, total_pages,
                    page_offset, chunk_pages, st, page_num, n_lines,
                    abs_page, ref, origin, run, seen, mainvars >>

\* pdf_bytes_to_text returns one text per page of the part; parse_pages starts
Ocr ==
    /\ pc = "ocr"
    /\ chunk_pages' = parts[part_i].page_count
    /\ st' = ParseStart
    /\ page_num' = 1
    /\ abs_page' = abs_page + 1
    /\ pc' = "parse"
    /\ UNCHANGED << num_pages, chunk_size, parts, part_i, all_records, n_lines,
                    total_pages, page_offset, ref, origin, run, seen, mainvars >>

\* pdf_bytes_to_text raises (conversion or OCR failure)
OcrFails ==
    /\ pc = "ocr"
    /\ pc' = "raised"
    /\ UNCHANGED << num_pages, chunk_size, parts, part_i, all_records,
                    total_pages, page_offset, chunk_pages, st, page_num,
                    n_lines, abs_page, ref, origin, run, seen, mainvars >>

\* one line of the current page goes through the loop body of parse_pages
ReadLine(line) ==
    /\ pc = "parse"
    /\ n_lines < MaxLines
    /\ LET st1 == LineStep(st, line, FileName, ActualPage(page_num, page_offset))
           emits == Len(st1.records) > Len(st.records)
           opens == ACCOUNT_LINE(line) /\ st1.pending # << >>
       IN  /\ st' = st1
           /\ pc' = IF st1.raised THEN "raised" ELSE "parse"
           /\ origin' = [pend |-> IF opens THEN abs_page ELSE origin.pend,
                         recs |-> IF emits THEN Append(origin.recs, origin.pend)
                                  ELSE origin.recs]
           /\ run' = IF INVOICED(line) THEN [len |-> 0, emitted |-> 0]
                     ELSE IF opens THEN [run EXCEPT !.len = Min(run.len + 1, 2)]
                     ELSE run
    /\ n_lines' = n_lines + 1
    /\ ref' = IF ref.raised THEN ref ELSE LineStep(ref, line, FileName, ActualPage(abs_page, 0))
    /\ seen' = [ctx |-> (seen.ctx \/ PO_HEADER(line) \/ LINE_ITEM(line)
                                   \/ ACCOUNT_LINE(line)),
                 inv |-> (seen.inv \/ INVOICED(line)),
                 li |-> IF seen.li = 3 THEN 3
                        ELSE IF LINE_ITEM(line) /\ Truthy(st.current) THEN 1
                        ELSE IF PO_HEADER(line) /\ seen.li = 1 THEN 2
                        ELSE IF ACCOUNT_LINE(line) /\ seen.li = 2 THEN 3
                        ELSE seen.li]
    /\ UNCHANGED << num_pages, chunk_size, parts, part_i, all_records,
                    total_pages, page_offset, chunk_pages, page_num, abs_page,
                    mainvars >>

\* the page text is exhausted and the part has another page
EndPage ==
    /\ pc = "parse"
    /\ page_num < chunk_pages
    /\ page_num' = page_num + 1
    /\ abs_page' = abs_page + 1
    /\ UNCHANGED << n_lines, pc, num_pages, chunk_size, parts, part_i, all_records,
                    total_pages, page_offset, chunk_pages, st, ref, origin,
                    run, seen, mainvars >>

\* the last page of the part is exhausted: parse_pages closes an open
\* pending and returns, process_one_file extends all_records and advances
EndChunk ==
    /\ pc = "parse"
    /\ page_num = chunk_pages
    /\ LET st1 == ParseEnd(st)
           emits == Len(st1.records) > Len(st.records)
           last == part_i = Len(parts)
       IN  /\ all_records' = all_records \o st1.records
           /\ origin' = [pend |-> 0,
                         recs |-> IF emits THEN Append(origin.recs, origin.pend)
                                  ELSE origin.recs]
           /\ run' = IF emits THEN [run EXCEPT !.emitted = run.emitted + 1]
                     ELSE run
           /\ pc' = IF last THEN "done" ELSE "ocr"
           /\ ref' = IF last /\ ~ref.raised THEN ParseEnd(ref) ELSE ref
    /\ total_pages' = total_pages + parts[part_i].page_count
    /\ page_offset' = page_offset + parts[part_i].page_count
    /\ part_i' = part_i + 1
    /\ st' = ParseStart
    /\ page_num' = 0
    /\ chunk_pages' = 0
    /\ seen' = [seen EXCEPT !.li = IF @ = 3 THEN 3 ELSE 0]
    /\ UNCHANGED << n_lines, num_pages, chunk_size, parts, abs_page, mainvars >>

Next ==
    \/ Split
    \/ Ocr
    \/ OcrFails
    \/ \E line \in Lines : ReadLine(line)
    \/ EndPage
    \/ EndChunk

Spec == Init /\ [][Next]_vars

(***************************************************************************)
(* split_pdf_bytes on its own, over a wider range of inputs                *)
(***************************************************************************)
InitSplit ==
    /\ num_pages \in 1..MaxSplitPages
    /\ chunk_size \in 1..MaxSplitChunk
    /\ pc = "split"
    /\ InitFile
    /\ NoFiles

NextSplit == Split

SpecSplit == InitSplit /\ [][NextSplit]_vars

(***************************************************************************)
(* process_one_file on its own: the records and page total it returns for  *)
(* a file whose parts all go through OCR, or raised                        *)
(***************************************************************************)
RECURSIVE ProcessParts(_, _, _, _)
ProcessParts(f, ps, i, acc) ==
    IF i > Len(ps) \/ acc.raised THEN acc
    ELSE LET res == parse_pages(SubSeq(f.pages, ps[i].start + 1, ps[i].end),
                                f.name, acc.page_offset)
         IN  ProcessParts(f, ps, i + 1,
                 IF res.raised THEN [acc EXCEPT !.raised = TRUE]
                 ELSE [acc EXCEPT
                          !.all_records = @ \o res.records,
                          !.total_pages = @ + ps[i].page_count,
                          !.page_offset = @ + ps[i].page_count])

process_one_file(f, size) ==
    ProcessParts(f, split_pdf_bytes(Len(f.pages), size), 1,
                 [all_records |-> << >>, total_pages |-> 0, page_offset |-> 0,
                  raised |-> FALSE])

(***************************************************************************)
(* main: the loop over the uploaded files, process_one_file part by part   *)
(***************************************************************************)
\* page texts as the OCR returns them, and the uploaded documents built of them
PageA == << H1, A1, INV >>
PageB == << H2, A2 >>
PageC == << INVBAD >>

Docs == { << PageA >>, << PageC >>, << PageA, PageB >>, << PageB, PageC >>,
          << PageB, PageA >>, << PageA, PageB, PageC >> }

NameOf(i) == "file" \o ToString(i) \o ".pdf"

InitMain ==
    /\ chunk_size \in 1..MaxMainChunk
    /\ \E docs \in [1..NumFiles -> Docs] :
          uploaded_files = [i \in 1..NumFiles |->
                               [name |-> NameOf(i), pages |-> docs[i]]]
    /\ file_idx = 1
    /\ main_all_records = << >>
    /\ file_summaries = << >>
    /\ main_total_pages = 0
    /\ exc = ""
    /\ chunk_log = << >>
    /\ grand_totals = << >>
    /\ num_pages = 0
    /\ InitFile
    /\ pc = "file"

\* the next iteration of the loop over the files, or its end
NextFile == IF file_idx = Len(uploaded_files) THEN "main_done" ELSE "file"

\* process_one_file is called and splits the file
MainStartFile ==
    /\ pc = "file"
    /\ num_pages' = Len(uploaded_files[file_idx].pages)
    /\ parts' = split_pdf_bytes(Len(uploaded_files[file_idx].pages), chunk_size)
    /\ part_i' = 1
    /\ all_records' = << >>
    /\ total_pages' = 0
    /\ page_offset' = 0
    /\ chunk_log' = Append(chunk_log, << >>)
    /\ pc' = "chunk"
    /\ UNCHANGED << chunk_size, linevars, grand_totals, uploaded_files, file_idx,
                    main_all_records, file_summaries, main_total_pages, exc >>

\* PdfReader raises on the uploaded bytes
MainSplitFails ==
    /\ pc = "file"
    /\ chunk_log' = Append(chunk_log, << >>)
    /\ exc' = "PdfReader"
    /\ pc' = "except"
    /\ UNCHANGED << num_pages, chunk_size, parts, part_i, all_records,
                    total_pages, page_offset, linevars, grand_totals, uploaded_files,
                    file_idx, main_all_records, file_summaries,
                    main_total_pages >>

\* one iteration of the loop over the parts: OCR, parse_pages, bookkeeping
MainChunk ==
    /\ pc = "chunk"
    /\ LET f == uploaded_files[file_idx]
           part == parts[part_i]
           page_texts == SubSeq(f.pages, part.start + 1, part.end)
           res == parse_pages(page_texts, f.name, page_offset)
       IN  IF res.raised
           THEN /\ exc' = "ValueError"
                /\ pc' = "except"
                /\ chunk_log' = [chunk_log EXCEPT ![file_idx] = Append(@, "raised")]
                /\ UNCHANGED << all_records, total_pages, page_offset, part_i >>
           ELSE /\ all_records' = all_records \o res.records
                /\ total_pages' = total_pages + part.page_count
                /\ page_offset' = page_offset + part.page_count
                /\ part_i' = part_i + 1
                /\ pc' = IF part_i = Len(parts) THEN "returned" ELSE "chunk"
                /\ chunk_log' = [chunk_log EXCEPT ![file_idx] = Append(@, "ok")]
                /\ exc' = exc
    /\ UNCHANGED << num_pages, chunk_size, parts, linevars, grand_totals, uploaded_files,
                    file_idx, main_all_records, file_summaries,
                    main_total_pages >>

\* pdf_bytes_to_text raises on a part
MainOcrFails ==
    /\ pc = "chunk"
    /\ exc' = "pdf_bytes_to_text"
    /\ pc' = "except"
    /\ chunk_log' = [chunk_log EXCEPT ![file_idx] = Append(@, "raised")]
    /\ UNCHANGED << num_pages, chunk_size, parts, part_i, all_records,
                    total_pages, page_offset, linevars, grand_totals, uploaded_files,
                    file_idx, main_all_records, file_summaries,
                    main_total_pages >>

\* process_one_file has returned: the rest of the try block, without a raise
MainAfterFile ==
    /\ pc = "returned"
    /\ LET f == uploaded_files[file_idx]
       IN  /\ main_total_pages' = main_total_pages + total_pages
           /\ IF all_records = << >>
              THEN /\ file_summaries' =
                         Append(file_summaries, EmptySummary(f.name, total_pages))
                   /\ main_all_records' = main_all_records
              ELSE /\ file_summaries' =
                         Append(file_summaries,
                                Summary(f.name, total_pages, all_records,
                                        SplitInfo(parts, num_pages)))
                   /\ main_all_records' = main_all_records \o all_records
    /\ file_idx' = file_idx + 1
    /\ pc' = NextFile
    /\ UNCHANGED << num_pages, chunk_size, parts, part_i, all_records,
                    total_pages, page_offset, linevars, grand_totals, uploaded_files, exc,
                    chunk_log >>

\* process_one_file has returned records, the summary is appended and then
\* create_single_excel raises
MainExcelFails ==
    /\ pc = "returned"
    /\ all_records # << >>
    /\ main_total_pages' = main_total_pages + total_pages
    /\ file_summaries' =
          Append(file_summaries,
                 Summary(uploaded_files[file_idx].name, total_pages,
                         all_records, SplitInfo(parts, num_pages)))
    /\ exc' = "create_single_excel"
    /\ pc' = "except"
    /\ UNCHANGED << num_pages, chunk_size, parts, part_i, all_records,
                    total_pages, page_offset, linevars, grand_totals, uploaded_files,
                    file_idx, main_all_records, chunk_log >>

MainExceptKeepsPartial ==
    /\ pc = "except"
    /\ file_summaries' =
          Append(file_summaries,
                 FailedSummary(uploaded_files[file_idx].name, exc))
    /\ main_all_records' = main_all_records \o all_records
    /\ exc' = ""
    /\ file_idx' = file_idx + 1
    /\ pc' = NextFile
    /\ UNCHANGED << num_pages, chunk_size, parts, part_i, all_records,
                    total_pages, page_offset, linevars, grand_totals, uploaded_files,
                    main_total_pages, chunk_log >>

\* the except clause of the loop body
MainExcept ==
    /\ pc = "except"
    /\ file_summaries' =
          Append(file_summaries,
                 FailedSummary(uploaded_files[file_idx].name, exc))
    /\ exc' = ""
    /\ file_idx' = file_idx + 1
    /\ pc' = NextFile
    /\ UNCHANGED << num_pages, chunk_size, parts, part_i, all_records,
                    total_pages, page_offset, linevars, grand_totals, uploaded_files,
                    main_all_records, main_total_pages, chunk_log >>

\* the grand totals of main over the combined records
GrandTotals(files, pages, records) ==
    [files |-> files, pages |-> pages,
     unique_pos |-> UniquePOs(records),
     line_items |-> Len(records),
     total_amount |-> SumNumeric(records, "POLineAmount"),
     total_invoiced |-> SumNumeric(records, "StillToBeInvoiced")]

\* after the loop over the files: main returns when nothing was extracted,
\* and computes the grand totals otherwise
MainTotals ==
    /\ pc = "main_done"
    /\ IF main_all_records = << >>
       THEN /\ pc' = "no_records"
            /\ grand_totals' = grand_totals
       ELSE /\ pc' = "reported"
            /\ grand_totals' = << GrandTotals(Len(uploaded_files),
                                              main_total_pages,
                                              main_all_records) >>
    /\ UNCHANGED << num_pages, chunk_size, parts, part_i, all_records,
                    total_pages, page_offset, linevars, uploaded_files,
                    file_idx, main_all_records, file_summaries,
                    main_total_pages, exc, chunk_log >>

NextMain ==
    \/ MainTotals
    \/ MainStartFile
    \/ MainSplitFails
    \/ MainChunk
    \/ MainOcrFails
    \/ MainAfterFile
    \/ MainExcelFails
    \/ MainExcept

SpecMain == InitMain /\ [][NextMain]_vars

(***************************************************************************)
(* Properties                                                              *)
(***************************************************************************)
RECURSIVE SumPageCounts(_, _)
SumPageCounts(ps, k) ==
    IF k = 0 THEN 0 ELSE SumPageCounts(ps, k - 1) + ps[k].page_count

IsTruncated(r) == r.InvoicedPct = TRUNCATED \/ r.StillToBeInvoiced = TRUNCATED

\* the records of the document emitted so far
Output == all_records \o st.records

\* C4: for num_pages >= 1 and chunk_size >= 1, split_pdf_bytes returns one
\* part of num_pages pages when num_pages <= chunk_size, and otherwise the
\* least number k of parts with k * chunk_size >= num_pages, part i (0-based)
\* covering [i * chunk_size, min((i + 1) * chunk_size, num_pages)); the
\* windows are ascending, contiguous, non-empty, at most chunk_size long and
\* their page counts sum to num_pages.
C4_SplitWindows ==
    pc # "split" =>
        LET k == Len(parts)
        IN  /\ num_pages <= chunk_size =>
                  k = 1 /\ parts[1].page_count = num_pages
            /\ num_pages > chunk_size =>
                  /\ k * chunk_size >= num_pages
                  /\ (k - 1) * chunk_size < num_pages
                  /\ \A i \in 1..k :
                        /\ parts[i].start = (i - 1) * chunk_size
                        /\ parts[i].end = Min(i * chunk_size, num_pages)
            /\ parts[1].start = 0
            /\ parts[k].end = num_pages
            /\ \A i \in 1..k :
                  /\ parts[i].page_count = parts[i].end - parts[i].start
                  /\ parts[i].page_count >= 1
                  /\ parts[i].page_count <= chunk_size
            /\ \A i \in 1..(k - 1) : parts[i + 1].start = parts[i].end
            /\ SumPageCounts(parts, k) = num_pages

\* a split into three or more parts whose last part is shorter
C4_Witness ==
    /\ pc # "split"
    /\ Len(parts) >= 3
    /\ parts[Len(parts)].page_count < chunk_size

\* C1: processing the document part by part emits the same records as one
\* parse_pages run over all its pages as a single stream.
C1_ChunkedEqualsSingleStream ==
    (pc = "done" /\ ~ref.raised) => all_records = ref.records

\* C2: at most one record of a document carries the truncation sentinel, and
\* it is the last record of the document's output.
C2_SentinelOnlyLast ==
    pc = "done" =>
        \A i \in 1..Len(all_records) :
            IsTruncated(all_records[i]) => i = Len(all_records)

\* C3: the Page of every record (and of the open pending) is the 1-based
\* number, in the unsplit document, of the page on which its AccountLine was
\* read, which is the local page index plus the page counts of all parts
\* processed before.
C3_PageIsAbsolute ==
    /\ Len(origin.recs) = Len(Output)
    /\ \A i \in 1..Len(Output) : Output[i].Page = origin.recs[i]
    /\ st.pending # << >> => st.pending[1].Page = origin.pend
    /\ pc = "parse" =>
          /\ abs_page = page_num + SumPageCounts(parts, part_i - 1)
          /\ page_num \in 1..parts[part_i].page_count

\* a finished document of several parts with a record from a later part
C3_Witness ==
    /\ pc = "done"
    /\ Len(parts) >= 2
    /\ \E i \in 1..Len(all_records) :
          all_records[i].Page > parts[1].page_count

\* C5: two or more consecutive AccountLines that each open a PendingRecord,
\* with no invoiced line between them, contribute exactly one record by the
\* end of the document.
C5_ConsecutiveAccountLinesOneRecord ==
    (pc = "done" /\ run.len >= 2) => run.emitted = 1

\* C6: an AccountLine read when no Header has ever been seen in the document
\* still opens a PendingRecord, with empty PO fields.
C6_AccountLineWithoutHeaderOpens ==
    [][\A line \in Lines :
          (ReadLine(line) /\ ACCOUNT_LINE(line) /\ ~Truthy(ref.current)) =>
              /\ st'.pending # << >>
              /\ st'.pending[1].PONumber = ""]_vars

\* C6 (amended): an AccountLine or LineItem read while current is empty (no
\* Header since parse_pages started) is ignored: records, current and
\* pending stay as they are; so every record and every pending carries the
\* six PO fields of a Header.
C6_EmptyContextIgnored ==
    [][/\ \A line \in Lines :
             (/\ ReadLine(line)
              /\ ACCOUNT_LINE(line) \/ LINE_ITEM(line)
              /\ ~Truthy(st.current)) => st' = st
       /\ \A i \in 1..Len(st'.records \o st'.pending) :
             LET r == (st'.records \o st'.pending)[i]
             IN  \E h \in {H1, H2} :
                    /\ r.PONumber = h.g1 /\ r.POType = h.g2
                    /\ r.VendorID = h.g3 /\ r.VendorName = h.g4
                    /\ r.BuyerCode = h.g5 /\ r.PODate = h.g6]_vars

\* an AccountLine has been read on a page, with no Header before it in the
\* part, and nothing was opened or emitted
C6_Witness ==
    /\ pc = "parse"
    /\ n_lines >= 1
    /\ run.len = 0
    /\ seen.ctx /\ ~seen.inv
    /\ ~Truthy(st.current)
    /\ st.pending = << >>

\* C7: an invoiced line read while pending is open fills the invoiced amount
\* and percent with numbers (zero for the zero form), appends exactly that
\* record and clears pending; read while pending is absent it changes
\* nothing.
C7_InvoicedLineCloses ==
    [][\A line \in Lines :
          (ReadLine(line) /\ INVOICED(line)) =>
              IF st.pending # << >>
              THEN /\ Len(st'.records) = Len(st.records) + 1
                   /\ SubSeq(st'.records, 1, Len(st.records)) = st.records
                   /\ st'.pending = << >>
                   /\ LET r == st'.records[Len(st'.records)]
                      IN  /\ r.StillToBeInvoiced.t = "float"
                          /\ r.InvoicedPct.t = "float"
                          /\ INVOICED_ZERO(line) =>
                                /\ r.StillToBeInvoiced = Num(0)
                                /\ r.InvoicedPct = Num(0)
                          /\ [r EXCEPT !.StillToBeInvoiced = None,
                                       !.InvoicedPct = None] = st.pending[1]
              ELSE st' = st /\ all_records' = all_records]_vars

\* C8: parse_pages never raises, whatever the page texts.
C8_ParseNeverRaises == ~st.raised

\* C10: a document without any Header, LineItem or AccountLine yields no
\* record, whatever invoiced or unrecognized lines it has and however it is
\* split.
C10_NoContextNoRecords ==
    ~seen.ctx => /\ all_records = << >>
                 /\ st.records = << >>
                 /\ st.pending = << >>
                 /\ ~st.raised

\* a finished document of several parts with invoiced lines only
C10_Witness ==
    /\ pc = "done"
    /\ Len(parts) >= 2
    /\ seen.inv
    /\ ~seen.ctx

\* the files whose iteration of the loop of main is over
Finished == 1..(file_idx - 1)

\* processing of a part of file i (or its splitting) raised
ChunkRaised(i) ==
    \/ chunk_log[i] = << >>
    \/ chunk_log[i][Len(chunk_log[i])] = "raised"

HasFailedEntry(i) ==
    \E k \in 1..Len(file_summaries) :
        /\ file_summaries[k].filename = uploaded_files[i].name
        /\ file_summaries[k].anomalies.t = "FAILED"
        /\ file_summaries[k].anomalies.e # ""

\* what the files 1..n contribute to the combined output, each on its own
RECURSIVE Contribution(_)
Contribution(n) ==
    IF n = 0 THEN [records |-> << >>, pages |-> 0]
    ELSE LET rest == Contribution(n - 1)
             own == process_one_file(uploaded_files[n], chunk_size)
         IN  [records |-> IF HasFailedEntry(n) THEN rest.records
                          ELSE rest.records \o own.all_records,
              pages |-> IF ChunkRaised(n) THEN rest.pages
                        ELSE rest.pages + own.total_pages]

\* C9: when a part of a file raises, no later part of it is processed, none
\* of its records is in the combined output, the file has a FAILED summary
\* with the reason, and the combined records and page total are what the
\* other files contribute on their own.
C9_FailureIsIsolated ==
    /\ \A i \in 1..Len(chunk_log) :
          \A j \in 1..(Len(chunk_log[i]) - 1) : chunk_log[i][j] = "ok"
    /\ \A i \in Finished :
          ChunkRaised(i) =>
              /\ HasFailedEntry(i)
              /\ \A k \in 1..Len(main_all_records) :
                    main_all_records[k].SourceFile # uploaded_files[i].name
    /\ pc \in {"file", "main_done"} =>
          /\ main_all_records = Contribution(file_idx - 1).records
          /\ main_total_pages = Contribution(file_idx - 1).pages

\* the second part of the last file raised after its first part had given
\* records, and an earlier file has its records in the combined output
C9_Witness ==
    /\ pc = "main_done"
    /\ chunk_log[NumFiles] = << "ok", "raised" >>
    /\ all_records # << >>
    /\ main_all_records # << >>
    /\ HasFailedEntry(NumFiles)

\* the sum of a field over the first n records that are not truncated
RECURSIVE SumClosed(_, _, _)
SumClosed(records, n, field) ==
    IF n = 0 THEN 0
    ELSE SumClosed(records, n - 1, field)
         + (IF IsTruncated(records[n]) THEN 0 ELSE records[n][field].v)

\* the sum of the PO line amounts of the first n records
RECURSIVE SumAmounts(_, _)
SumAmounts(records, n) ==
    IF n = 0 THEN 0 ELSE SumAmounts(records, n - 1) + records[n].POLineAmount.v

\* the number of different PO numbers among the first n records
RECURSIVE DistinctPOs(_, _)
DistinctPOs(records, n) ==
    IF n = 0 THEN 0
    ELSE DistinctPOs(records, n - 1)
         + (IF \E j \in 1..(n - 1) : records[j].PONumber = records[n].PONumber
            THEN 0 ELSE 1)

Reduces(s, records) ==
    /\ s.line_items = Len(records)
    /\ s.unique_pos = DistinctPOs(records, Len(records))
    /\ s.total_amount = SumAmounts(records, Len(records))
    /\ s.total_invoiced = SumClosed(records, Len(records), "StillToBeInvoiced")

\* C11: every summary of a file with records, and the grand totals, hold the
\* number of records, the number of different PO numbers, the sum of all PO
\* line amounts and the sum of the invoiced amounts of the records that are
\* not truncated: a truncated record counts in the first sum only.
C11_SummaryReduction ==
    /\ \A k \in 1..Len(file_summaries) :
          file_summaries[k].anomalies.t = "text" =>
              \E i \in 1..Len(uploaded_files) :
                  /\ uploaded_files[i].name = file_summaries[k].filename
                  /\ Reduces(file_summaries[k],
                             process_one_file(uploaded_files[i],
                                              chunk_size).all_records)
    /\ pc = "reported" =>
          /\ grand_totals # << >>
          /\ Reduces(grand_totals[1], main_all_records)

\* grand totals over records of which one is truncated and one is closed
C11_Witness ==
    /\ pc = "reported"
    /\ \E i, j \in 1..Len(main_all_records) :
          /\ IsTruncated(main_all_records[i])
          /\ ~IsTruncated(main_all_records[j])
          /\ main_all_records[j].StillToBeInvoiced.v > 0
    /\ grand_totals[1].total_amount > grand_totals[1].total_invoiced

POKeys == {"po", "type", "vid", "vname", "bc", "date"}

\* C12: a Header line overwrites the PO context only: pending stays as it
\* is, and so do the line number and description held in current.
C12_HeaderKeepsLineItem ==
    [][\A line \in Lines :
          (ReadLine(line) /\ PO_HEADER(line)) =>
              /\ st'.pending = st.pending
              /\ Get(st'.current, "line_num", "") = Get(st.current, "line_num", "")
              /\ Get(st'.current, "desc", "") = Get(st.current, "desc", "")]_vars

\* C12 (amended): a Header line replaces current as a whole: pending and
\* records stay as they are, current holds the six PO fields of the Header
\* and no line number or description; an AccountLine read when current has no
\* line number opens a pending with the PO fields of current and an empty
\* line item and description.
C12_HeaderReplacesCurrent ==
    [][\A line \in Lines :
          /\ (ReadLine(line) /\ PO_HEADER(line)) =>
                /\ st'.pending = st.pending
                /\ st'.records = st.records
                /\ DOMAIN st'.current = POKeys
                /\ st'.current.po = line.g1 /\ st'.current.type = line.g2
                /\ st'.current.vid = line.g3 /\ st'.current.vname = line.g4
                /\ st'.current.bc = line.g5 /\ st'.current.date = line.g6
          /\ (/\ ReadLine(line) /\ ACCOUNT_LINE(line)
              /\ DOMAIN st.current = POKeys) =>
                /\ st'.pending # << >>
                /\ st'.pending[1].PONumber = st.current.po
                /\ st'.pending[1].LineItem = ""
                /\ st'.pending[1].Description = ""]_vars

\* in the first part of a document a LineItem was recorded, then the second
\* Header came, and the AccountLine after it opened a pending
C12_Witness ==
    /\ pc = "parse"
    /\ part_i = 1
    /\ seen.li = 3
    /\ st.pending # << >>
    /\ st.pending[1].PONumber = H2.g1
    /\ st.pending[1].LineItem = ""
    /\ n_lines = 4

\* a record with its invoiced fields blanked, as the pending it came from
Unclosed(r) == [r EXCEPT !.StillToBeInvoiced = None, !.InvoicedPct = None]

\* C13: a pending is a snapshot.  An AccountLine that opens it copies the PO
\* and line-item fields of current, its own account code and amount, and the
\* page being read; Header and LineItem lines leave pending and the output as
\* they are; the record emitted when it is closed, by an invoiced line or at
\* the end of the stream, has the fields of the pending.
C13_PendingIsSnapshot ==
    [][/\ \A line \in Lines :
             /\ (ReadLine(line) /\ (PO_HEADER(line) \/ LINE_ITEM(line))) =>
                   /\ st'.pending = st.pending
                   /\ Output' = Output
             /\ (ReadLine(line) /\ ACCOUNT_LINE(line) /\ Truthy(st.current)) =>
                   /\ st'.pending # << >>
                   /\ LET p == st'.pending[1]
                      IN  /\ p.PONumber = st.current.po
                          /\ p.POType = st.current.type
                          /\ p.VendorID = st.current.vid
                          /\ p.VendorName = st.current.vname
                          /\ p.BuyerCode = st.current.bc
                          /\ p.PODate = st.current.date
                          /\ p.LineItem = Get(st.current, "line_num", "")
                          /\ p.Description = Get(st.current, "desc", "")
                          /\ p.AccountCode = (IF line = A1 THEN "MAT 1000" ELSE "SVC")
                          /\ p.POLineAmount = (IF line = A1 THEN Num(125000)
                                               ELSE Num(8050))
                          /\ p.Page = abs_page
       /\ Len(Output') > Len(Output) =>
             /\ st.pending # << >>
             /\ Unclosed(Output'[Len(Output')]) = st.pending[1]]_vars

\* a record opened under the first Header was closed by an invoiced line
\* after the second Header had replaced current
C13_Witness ==
    /\ st.records # << >>
    /\ st.records[Len(st.records)].PONumber = H1.g1
    /\ ~IsTruncated(st.records[Len(st.records)])
    /\ Truthy(st.current)
    /\ st.current.po = H2.g1

\* C14: the output of the document is append-only: every step leaves it as
\* it is or appends one record to it, so no emitted record is ever changed,
\* moved or removed.
C14_OutputAppendOnly ==
    [][\/ Output' = Output
       \/ /\ Len(Output') = Len(Output) + 1
          /\ SubSeq(Output', 1, Len(Output)) = Output]_vars

\* a finished document of several parts with two records of different POs
C14_Witness ==
    /\ pc = "done"
    /\ Len(parts) >= 2
    /\ Len(all_records) >= 2
    /\ all_records[1].PONumber # all_records[2].PONumber

\* C15: the Page values of the output are non-decreasing in output order,
\* and the open pending is on no earlier page than the last record.
C15_PagesNonDecreasing ==
    /\ \A i, j \in 1..Len(Output) :
          i < j => Output[i].Page <= Output[j].Page
    /\ (st.pending # << >> /\ Output # << >>) =>
          Output[Len(Output)].Page <= st.pending[1].Page

\* a finished document of several parts whose records are on different pages
C15_Witness ==
    /\ pc = "done"
    /\ Len(parts) >= 2
    /\ \E i, j \in 1..Len(all_records) :
          i < j /\ all_records[i].Page < all_records[j].Page

\* the loop of main over the files is over
LoopOver == pc \in {"main_done", "no_records", "reported"}

\* some record of file i is in the combined records
HasRecordsIn(i) ==
    \E k \in 1..Len(main_all_records) :
        main_all_records[k].SourceFile = uploaded_files[i].name

\* C16: after the loop of main over the files, file_summaries has exactly
\* one entry per uploaded file, in upload order, and the entry of a file is
\* a FAILED one exactly when none of its records is in the combined records
\* (a file in which no record was found has none to place and is left out of
\* the equivalence).
C16_OneSummaryPerFile ==
    LoopOver =>
        /\ Len(file_summaries) = Len(uploaded_files)
        /\ \A i \in 1..Len(uploaded_files) :
              /\ file_summaries[i].filename = uploaded_files[i].name
              /\ file_summaries[i].anomalies.t # "No parseable records found" =>
                    ((file_summaries[i].anomalies.t = "FAILED")
                        <=> ~HasRecordsIn(i))

====
